---- MODULE Spec2Model ----
(***************************************************************************)
(* mcdig: multicast DNS lookup utility.                                    *)
(*                                                                         *)
(* Model of the response aggregator (response.go: ResponseInput,           *)
(* responseAppend, ResponseGet), of the receivers (query.go: queryRecv)    *)
(* and of the session (query.go: QueryRun).                                *)
(*                                                                         *)
(* dns.RR values are pointers: a section is a sequence of references into  *)
(* a heap of record objects.  dns.Copy allocates a new object, dns.Dedup   *)
(* lowers the TTL of the object it keeps, copy() copies references.        *)
(***************************************************************************)
EXTENDS Integers, Sequences, FiniteSets, TLC

\* ------------------------------------------------------------------------
\* Bounds of the model
\* ------------------------------------------------------------------------

\* The largest number of records one ingested message carries, over its
\* three sections
MaxMsgRRs == 2

\* ------------------------------------------------------------------------
\* Resource records
\* ------------------------------------------------------------------------

\* The mDNS "unicast response" flag: 1 << 15 of the class field
UnicastBit == 32768

\* dns.ClassINET
ClassINET == 1

\* A record: type, class (uint16), TTL and the remaining payload (owner
\* name, taken lower-case, and RDATA). rrAU is rrA as a responder sends it
\* with the unicast bit set and a shorter TTL; only rrAU has TTL 1.
rrA   == [rrtype |-> "A",   class |-> ClassINET,              ttl |-> 2, rdata |-> 1]
rrAU  == [rrtype |-> "A",   class |-> ClassINET + UnicastBit, ttl |-> 1, rdata |-> 1]
rrB   == [rrtype |-> "A",   class |-> ClassINET,              ttl |-> 2, rdata |-> 2]
rrOPT == [rrtype |-> "OPT", class |-> 1440 + UnicastBit,      ttl |-> 0, rdata |-> 0]

\* The records a received message is made of
RRs == {rrA, rrAU, rrB, rrOPT}

\* An unused heap cell
Null == [rrtype |-> "null", class |-> 0, ttl |-> 0, rdata |-> 0]

\* Sequences over S of length n, and of length at most n
RECURSIVE SeqsOfLen(_, _)
SeqsOfLen(S, n) ==
    IF n = 0 THEN {<<>>}
    ELSE {Append(s, x) : s \in SeqsOfLen(S, n - 1), x \in S}

SeqsUpTo(S, n) == UNION {SeqsOfLen(S, k) : k \in 0..n}

\* The messages made of the records of s, in this order, cut into the
\* three sections of a dns.Msg
Cuts(s) ==
    UNION {{[Answer |-> SubSeq(s, 1, i),
             Ns     |-> SubSeq(s, i + 1, j),
             Extra  |-> SubSeq(s, j + 1, Len(s))] : j \in i..Len(s)} :
           i \in 0..Len(s)}

\* The messages a receiver can hand to ResponseInput: those of at most
\* MaxMsgRRs records
MsgSet == UNION {Cuts(s) : s \in SeqsUpTo(RRs, MaxMsgRRs)}

\* The element of a set of one element. {F(x) : x \in {e}} holds F(e), with
\* e computed once however often F names x
The(S) == CHOOSE x \in S : TRUE

\* Heap cells: as many as the sections, a snapshot of them and one message
\* being appended can hold at once
HeapSize == 14
Refs == 1..HeapSize

Range(s) == {s[i] : i \in DOMAIN s}

\* ------------------------------------------------------------------------
\* The aggregator's pure parts
\* ------------------------------------------------------------------------

\* Mutant of ClearUnicastBit: the class is stored as received
ClearNothing(c) == c

\* rr.Header().Class &^= 1 << 15
ClearUnicastBit(c) == c - ((c \div UnicastBit) % 2) * UnicastBit

\* dns.Copy(rr): the reference of a new object; the lowest free cell
Alloc(h) == CHOOSE r \in Refs : h[r] = Null /\ \A q \in Refs : h[q] = Null => r <= q

\* The key dns.Dedup compares records by: the record's text without its TTL
normalizedString(rr) == <<rr.class, rr.rrtype, rr.rdata>>

\* dns.Dedup(rrs, nil): keeps the first record of every key, in order, and
\* gives it the lowest TTL of its duplicates. kept holds the records of the
\* map m, in the order they entered it.
RECURSIVE DedupLoop(_, _, _, _)
DedupLoop(h, rrs, i, kept) ==
    IF i > Len(rrs) THEN [heap |-> h, section |-> kept]
    ELSE LET r   == rrs[i]
             key == normalizedString(h[r])
             hit == {j \in 1..Len(kept) : normalizedString(h[kept[j]]) = key}
         IN  IF hit # {}
             THEN LET mr == kept[CHOOSE j \in hit : TRUE]
                  IN  The({DedupLoop(h2, rrs, i + 1, kept) :
                              h2 \in {IF h[mr].ttl > h[r].ttl
                                      THEN [h EXCEPT ![mr].ttl = h[r].ttl]
                                      ELSE h}})
             ELSE The({DedupLoop(h, rrs, i + 1, k2) : k2 \in {Append(kept, r)}})

\* Mutant of Dedup: every record is kept
DedupNone(h, rrs) == [heap |-> h, section |-> rrs]

Dedup(h, rrs) == DedupLoop(h, rrs, 1, <<>>)

\* Mutant of AppendOne: OPT records are stored like the others
AppendOneAny(h, section, rr) ==
    LET rr2 == Alloc(h)
    IN  [heap    |-> [h EXCEPT ![rr2] = [rr EXCEPT !.class = ClearUnicastBit(rr.class)]],
         section |-> Append(section, rr2)]

\* The body of responseAppend's loop for one record of data
AppendOne(h, section, rr) ==
    IF rr.rrtype = "OPT" THEN [heap |-> h, section |-> section]
    ELSE LET rr2 == Alloc(h)
         IN  [heap    |-> [h EXCEPT ![rr2] = [rr EXCEPT !.class = ClearUnicastBit(rr.class)]],
              section |-> Append(section, rr2)]

RECURSIVE AppendLoop(_, _, _, _)
AppendLoop(h, section, data, i) ==
    IF i > Len(data) THEN [heap |-> h, section |-> section]
    ELSE The({AppendLoop(one.heap, one.section, data, i + 1) :
                 one \in {AppendOne(h, section, data[i])}})

\* Mutant of responseAppend: the section is deduplicated before the new
\* records are appended, not after
responseAppendLate(h, section, data) ==
    LET ded == Dedup(h, section)
    IN  AppendLoop(ded.heap, ded.section, data, 1)

\* responseAppend(section, data)
responseAppend(h, section, data) ==
    The({Dedup(app.heap, app.section) : app \in {AppendLoop(h, section, data, 1)}})

\* ------------------------------------------------------------------------
\* State
\* ------------------------------------------------------------------------

VARIABLES
    heap,           \* the record objects: reference -> record, Null if unused
    rspAnswer,      \* collected answer section (references)
    rspAuthority,   \* collected authority section (references)
    rspAdditional,  \* collected additional section (references)
    rspLock,        \* rspLock is locked
    got,            \* ans, auth, add: the results of ResponseGet
    gpc,            \* where the caller of ResponseGet is
    sock,           \* the state of every socket
    rxq,            \* the datagrams that wait in every socket
    ndgram,         \* the number of datagrams the network may still deliver
    rpc,            \* where the receiver of every socket is
    rsp,            \* the message a receiver has parsed
    seenAnswer,     \* history: keys of the records ingested as answers
    seenNs,         \* history: keys of the records ingested as authority
    seenExtra,      \* history: keys of the records ingested as additional
    whole,          \* history: the sections when ResponseInput last returned
    ingested,       \* history: the messages ResponseInput has returned from
    heard,          \* history: what became of the datagrams each receiver read
    OptTxCount,     \* the option -c: how many queries are sent
    mpc,            \* where the main task is, in QueryRun and after it
    mi,             \* the index of the loop the main task is in
    tmCount,        \* tmCount of QueryRun
    wait,           \* the counter of the sync.WaitGroup wait
    sent,           \* history: the writes of every socket, as destinations
    made,           \* the results of ResponseGet that are not nil
    out,            \* the lines ResponsePrint has written
    ifIn,           \* what IfAddrs finds: the interfaces and the options
    ifOut,          \* what IfAddrs has returned
    OptDomain,      \* the domain of the command line
    rq,             \* what queryNewRequest has returned
    alIn,           \* the address AddrIsLocal is asked about, and the
                    \* addresses of the interfaces
    alOut           \* what AddrIsLocal has returned

storeVars == <<heap, rspAnswer, rspAuthority, rspAdditional, got>>
netVars   == <<sock, rxq, ndgram>>
recvVars  == <<rpc, rsp>>
histVars  == <<seenAnswer, seenNs, seenExtra>>
logVars   == <<whole, ingested, heard>>
mainVars  == <<OptTxCount, mpc, mi, tmCount, wait, sent>>
printVars == <<made, out>>
ifVars    == <<ifIn, ifOut>>
callVars  == <<OptDomain, rq, alIn, alOut>>
vars      == <<storeVars, rspLock, gpc, netVars, recvVars, histVars, logVars, mainVars,
               printVars, ifVars, callVars>>

\* The aggregator's storage as one value
Agg == [heap |-> heap, ans |-> rspAnswer, auth |-> rspAuthority, add |-> rspAdditional]

\* The storage at process start: the three slices are nil
Empty == [heap |-> [r \in Refs |-> Null], ans |-> <<>>, auth |-> <<>>, add |-> <<>>]

\* Mutant of Line138: the answers are appended and not deduplicated
Line138Plain(s, m) ==
    LET r == AppendLoop(s.heap, s.ans, m.Answer, 1)
    IN  [s EXCEPT !.heap = r.heap, !.ans = r.section]

\* The three statements of ResponseInput
Line138(s, m) ==
    The({[s EXCEPT !.heap = r.heap, !.ans = r.section] :
            r \in {responseAppend(s.heap, s.ans, m.Answer)}})

Line139(s, m) ==
    The({[s EXCEPT !.heap = r.heap, !.auth = r.section] :
            r \in {responseAppend(s.heap, s.ans, m.Ns)}})

Line140(s, m) ==
    The({[s EXCEPT !.heap = r.heap, !.add = r.section] :
            r \in {responseAppend(s.heap, s.add, m.Extra)}})

\* The references of refs, each once, in the order they first occur
RECURSIVE FirstRefs(_, _, _)
FirstRefs(refs, i, acc) ==
    IF i > Len(refs) THEN acc
    ELSE The({FirstRefs(refs, i + 1, a2) :
                 a2 \in {IF refs[i] \in Range(acc) THEN acc ELSE Append(acc, refs[i])}})

\* Go's garbage collector: an object no reference leads to is gone. A
\* reference has no meaning but the object it leads to, so the objects left
\* are numbered in the order the sections, and then the references of
\* others, name them. Returns the storage and the references of others.
Renumber(s, others, live, to) ==
    LET mv(section) == [i \in DOMAIN section |-> to[section[i]]]
    IN  [heap   |-> [r \in Refs |-> IF r <= Len(live) THEN s.heap[live[r]] ELSE Null],
         ans    |-> mv(s.ans),
         auth   |-> mv(s.auth),
         add    |-> mv(s.add),
         others |-> mv(others)]

Collect(s, others) ==
    The({The({Renumber(s, others, live, to) :
                 to \in {[r \in Range(live) |-> CHOOSE k \in DOMAIN live : live[k] = r]}}) :
            live \in {The({FirstRefs(refs, 1, <<>>) :
                              refs \in {s.ans \o s.auth \o s.add \o others}})}})

\* ResponseInput(rsp), from Lock to Unlock
ResponseInputBody(s, m) == Line140(Line139(Line138(s, m), m), m)

\* The records a section shows: the objects its references lead to
Shown(h, section) == [i \in DOMAIN section |-> h[section[i]]]

\* The three sections as a caller sees them
ShownAll(s) == <<Shown(s.heap, s.ans), Shown(s.heap, s.auth), Shown(s.heap, s.add)>>

\* The key a record is stored under: its class has the unicast bit cleared
StoredKey(rr) == normalizedString([rr EXCEPT !.class = ClearUnicastBit(rr.class)])

\* The keys of the records of data that are no OPT records
KeysOf(data) == {StoredKey(data[i]) : i \in {j \in DOMAIN data : data[j].rrtype # "OPT"}}

\* The keys of the records a section shows
KeysIn(h, section) == {normalizedString(h[section[i]]) : i \in DOMAIN section}

\* No snapshot taken: the results of ResponseGet are nil
NoneGot == [ans |-> <<>>, auth |-> <<>>, add |-> <<>>]

\* The references a caller holds in the slices ResponseGet returned, and
\* those slices cut out of refs again
GotRefs(g) == g.ans \o g.auth \o g.add

GotOf(g, refs) ==
    [ans  |-> SubSeq(refs, 1, Len(g.ans)),
     auth |-> SubSeq(refs, Len(g.ans) + 1, Len(g.ans) + Len(g.auth)),
     add  |-> SubSeq(refs, Len(g.ans) + Len(g.auth) + 1, Len(refs))]

\* The storage becomes s and the results of ResponseGet become g
Commit(s, g) ==
    \E st \in {s} : \E c \in {Collect(st, GotRefs(g))} :
        /\ heap' = c.heap
        /\ rspAnswer' = c.ans
        /\ rspAuthority' = c.auth
        /\ rspAdditional' = c.add
        /\ got' = GotOf(g, c.others)

\* Mutant of CanLock: Lock() returns at once, whatever the mutex is
CanLockAlways(l) == TRUE

\* rspLock.Lock() returns once the mutex is unlocked
CanLock(l) == l = FALSE

\* The history of the records ingested, kept with ResponseInput(m)
Ingested(m) ==
    /\ seenAnswer' = seenAnswer \cup KeysOf(m.Answer)
    /\ seenNs' = seenNs \cup KeysOf(m.Ns)
    /\ seenExtra' = seenExtra \cup KeysOf(m.Extra)

\* The whole of ResponseInput(m), called while no other task is in the
\* aggregator
ResponseInputCall(m) ==
    /\ CanLock(rspLock)
    /\ Commit(ResponseInputBody(Agg, m), got)
    /\ rspLock' = FALSE

\* The three copies of ResponseGet: make() a slice of the section's length
\* and copy() the section's elements, which are references, into it
Copy189(s) == [i \in 1..Len(s.ans) |-> s.ans[i]]
Copy192(s) == [i \in 1..Len(s.auth) |-> s.auth[i]]
Copy195(s) == [i \in 1..Len(s.add) |-> s.add[i]]

\* The whole of ResponseGet(), called while no other task is in the
\* aggregator
ResponseGetCall ==
    /\ CanLock(rspLock)
    /\ Commit(Agg, [ans |-> Copy189(Agg), auth |-> Copy192(Agg), add |-> Copy195(Agg)])
    /\ made' = {"ans", "auth", "add"}
    /\ rspLock' = FALSE

\* The caller of ResponseGet writes to a record it was returned:
\* rr.Header().Ttl = 0 for the i-th record of what it got
CallerModify(i) ==
    /\ i \in DOMAIN GotRefs(got)
    /\ heap[GotRefs(got)[i]].ttl # 0
    /\ heap' = [heap EXCEPT ![GotRefs(got)[i]].ttl = 0]
    /\ UNCHANGED <<rspAnswer, rspAuthority, rspAdditional, rspLock, got>>

\* ------------------------------------------------------------------------
\* Sockets, datagrams and receivers
\* ------------------------------------------------------------------------

\* The largest number of datagrams that reach the sockets in one run
MaxDgrams == 2

\* The largest number of datagrams that reach the sockets in a session
MaxSessionDgrams == 1

\* The largest value of the option -c
MaxTxCount == 2

\* The unicast sockets, one per local address, and the multicast sockets,
\* one per interface, in the order QueryRun opens them
conns  == <<"conn1", "conn2">>
mconns == <<"mconn1", "mconn2">>

allConns == conns \o mconns

\* The sockets; every socket has one receiver, known by the socket
Socks == Range(allConns)

\* IP addresses, an IPv4 address as its 4 bytes and an IPv6 address as its 8
\* groups: a loopback address, the addresses of the local interface and
\* the address of another host
ipLoopback == <<127, 0, 0, 1>>
ipOwn      == <<192, 168, 1, 2>>
ipOwn6     == <<65152, 0, 0, 0, 0, 0, 0, 1>>
ipPeer     == <<192, 168, 1, 7>>

\* The mDNS groups: 224.0.0.251 and ff02::fb, port 5353
mcast4 == [IP |-> <<224, 0, 0, 251>>, Port |-> 5353]
mcast6 == [IP |-> <<65282, 0, 0, 0, 0, 0, 0, 251>>, Port |-> 5353]

\* net.IP.To4() != nil: 4 bytes, or an IPv4 address mapped into IPv6
AddrIs4(ip) ==
    \/ Len(ip) = 4
    \/ Len(ip) = 8 /\ (\A k \in 1..5 : ip[k] = 0) /\ ip[6] = 65535

\* net.IP.IsLoopback
IsLoopback(ip) ==
    IF Len(ip) = 4 THEN ip[1] = 127
    ELSE IF AddrIs4(ip) THEN ip[7] \div 256 = 127
    ELSE ip = <<0, 0, 0, 0, 0, 0, 0, 1>>

\* net.InterfaceAddrs(), when it succeeds
InterfaceAddrs == {ipLoopback, ipOwn, ipOwn6}

\* ------------------------------------------------------------------------
\* IfAddrs
\* ------------------------------------------------------------------------

\* The largest number of addresses of an interface
MaxIfAddrs == 3

\* More IP addresses: the IPv6 loopback ::1, a global IPv6 address
\* 2001:db8::1 and the IPv4 address of ipOwn mapped into IPv6
ipLoopback6 == <<0, 0, 0, 0, 0, 0, 0, 1>>
ipGlobal6   == <<8193, 3512, 0, 0, 0, 0, 0, 1>>
ipMapped    == <<0, 0, 0, 0, 0, 65535, 49320, 258>>

\* A nil net.IP
NilIP == <<>>

\* ip.To4(): the 4 bytes of an IPv4 address, nil for another address
To4(ip) ==
    IF Len(ip) = 4 THEN ip
    ELSE IF AddrIs4(ip)
         THEN <<ip[7] \div 256, ip[7] % 256, ip[8] \div 256, ip[8] % 256>>
         ELSE NilIP

\* ip.IsLinkLocalUnicast(): 169.254.0.0/16 or fe80::/10
IsLinkLocalUnicast(ip) ==
    IF To4(ip) # NilIP THEN To4(ip)[1] = 169 /\ To4(ip)[2] = 254
    ELSE ip[1] \div 64 = 1018

\* Mutant of FilterIP: an IPv6 address that is not link-local is kept
FilterIPAny6(ip, opt4, opt6) ==
    The({IF kept = NilIP THEN NilIP
         ELSE IF To4(ip) # NilIP /\ ~opt4 THEN NilIP
         ELSE IF To4(ip) = NilIP /\ ~opt6 THEN NilIP
         ELSE kept :
            kept \in {IF IsLoopback(ip) THEN NilIP
                      ELSE IF To4(ip) # NilIP THEN To4(ip)
                      ELSE ip}})

\* IfAddrs: the switch on the address of an interface, and the test of
\* the options Opt4 and Opt6; the address to use, or nil
FilterIP(ip, opt4, opt6) ==
    The({IF kept = NilIP THEN NilIP
         ELSE IF To4(ip) # NilIP /\ ~opt4 THEN NilIP
         ELSE IF To4(ip) = NilIP /\ ~opt6 THEN NilIP
         ELSE kept :
            kept \in {IF IsLoopback(ip) THEN NilIP
                      ELSE IF To4(ip) # NilIP THEN To4(ip)
                      ELSE IF ~IsLinkLocalUnicast(ip) THEN NilIP
                      ELSE ip}})

\* Mutant of AddAddr: the interface is added to its list for every address
AddAddrAgain(acc, iface, ip, is4) ==
    [addrs  |-> Append(acc.addrs, [IP |-> ip, Port |-> 5353, Zone |-> iface.Name]),
     if4    |-> IF is4 THEN Append(acc.if4, iface) ELSE acc.if4,
     if4seen |-> IF is4 THEN acc.if4seen \cup {iface.Index} ELSE acc.if4seen,
     if6    |-> IF ~is4 THEN Append(acc.if6, iface) ELSE acc.if6,
     if6seen |-> IF ~is4 THEN acc.if6seen \cup {iface.Index} ELSE acc.if6seen]

\* IfAddrs: the address and its interface are added to the lists
AddAddr(acc, iface, ip, is4) ==
    [addrs  |-> Append(acc.addrs, [IP |-> ip, Port |-> 5353, Zone |-> iface.Name]),
     if4    |-> IF is4 /\ iface.Index \notin acc.if4seen
                THEN Append(acc.if4, iface) ELSE acc.if4,
     if4seen |-> IF is4 THEN acc.if4seen \cup {iface.Index} ELSE acc.if4seen,
     if6    |-> IF ~is4 /\ iface.Index \notin acc.if6seen
                THEN Append(acc.if6, iface) ELSE acc.if6,
     if6seen |-> IF ~is4 THEN acc.if6seen \cup {iface.Index} ELSE acc.if6seen]

\* IfAddrs: the loop over the addresses of one interface
RECURSIVE AddrLoop(_, _, _, _, _)
AddrLoop(acc, iface, k, opt4, opt6) ==
    IF k > Len(iface.Addrs) THEN acc
    ELSE The({AddrLoop(a2, iface, k + 1, opt4, opt6) :
                 a2 \in {The({IF ip = NilIP THEN acc
                              ELSE AddAddr(acc, iface, ip, To4(iface.Addrs[k]) # NilIP) :
                                 ip \in {FilterIP(iface.Addrs[k], opt4, opt6)}})}})

\* IfAddrs: the loop over the interfaces; failAt is the interface whose
\* Addrs() fails, 0 if none does. The result is fatal if LogFatal is called
RECURSIVE IfaceLoop(_, _, _, _, _, _)
IfaceLoop(acc, interfaces, n, failAt, opt4, opt6) ==
    IF n > Len(interfaces)
    THEN [fatal |-> acc.addrs = <<>>, addrs |-> acc.addrs, if4 |-> acc.if4, if6 |-> acc.if6]
    ELSE IF n = failAt
    THEN [fatal |-> TRUE, addrs |-> <<>>, if4 |-> <<>>, if6 |-> <<>>]
    ELSE The({IfaceLoop(a2, interfaces, n + 1, failAt, opt4, opt6) :
                 a2 \in {AddrLoop(acc, interfaces[n], 1, opt4, opt6)}})

\* IfAddrs: the option OptIface, if set, leaves the first interface of that
\* name and no other
RECURSIVE ApplyOptIface(_, _)
ApplyOptIface(interfaces, optIface) ==
    IF interfaces = <<>> THEN <<>>
    ELSE IF interfaces[1].Name = optIface THEN <<interfaces[1]>>
    ELSE ApplyOptIface(Tail(interfaces), optIface)

\* IfAddrs(), for the interfaces net.Interfaces() returns and the options
IfAddrs(interfaces, failAt, optIface, opt4, opt6) ==
    The({IF chosen = <<>>
         THEN [fatal |-> TRUE, addrs |-> <<>>, if4 |-> <<>>, if6 |-> <<>>]
         ELSE IfaceLoop([addrs |-> <<>>, if4 |-> <<>>, if4seen |-> {},
                         if6 |-> <<>>, if6seen |-> {}],
                        chosen, 1, failAt, opt4, opt6) :
            chosen \in {IF optIface # "" THEN ApplyOptIface(interfaces, optIface)
                        ELSE interfaces}})

\* The interfaces of the host of the sessions: one interface with an IPv4
\* and a link-local IPv6 address, beside the loopback interface
HostInterfaces ==
    <<[Index |-> 1, Name |-> "lo", Addrs |-> <<ipLoopback, ipLoopback6>>],
      [Index |-> 2, Name |-> "eth0", Addrs |-> <<ipOwn, ipOwn6>>]>>

\* addrs, if4, if6 := IfAddrs() in QueryRun, with options -4 -6
HostAddrs == IfAddrs(HostInterfaces, 0, "", TRUE, TRUE)

\* What IfAddrs finds in a session, and what it returns
HostInput == [interfaces |-> HostInterfaces, optIface |-> "", opt4 |-> TRUE, opt6 |-> TRUE]
NotCalled == [called |-> FALSE,
              res |-> [fatal |-> FALSE, addrs |-> <<>>, if4 |-> <<>>, if6 |-> <<>>]]
HostCalled == [called |-> TRUE, res |-> HostAddrs]

\* conn.LocalAddr(): the address the unicast socket is bound to, which is
\* the address of IfAddrs it was opened for
LocalAddr(c) == HostAddrs.addrs[CHOOSE k \in DOMAIN conns : conns[k] = c]

\* net.IP.Equal: an IPv4 address and its form mapped into IPv6 are equal
Equal(x, y) ==
    IF To4(x) # NilIP /\ To4(y) # NilIP THEN To4(x) = To4(y) ELSE x = y

\* Mutant of AddrIsLocalOn: an address is local when the addresses of the
\* interfaces cannot be obtained
AddrIsLocalGuess(addr, addrs, err) ==
    IF IsLoopback(addr) THEN TRUE
    ELSE IF err THEN TRUE
    ELSE \E a \in addrs : Equal(addr, a)

\* AddrIsLocal(addr), when net.InterfaceAddrs() returns addrs, or fails
\* (err); the addresses are *net.IPNet, as net.InterfaceAddrs() gives them
AddrIsLocalOn(addr, addrs, err) ==
    IF IsLoopback(addr) THEN TRUE
    ELSE IF err THEN FALSE
    ELSE \E a \in addrs : Equal(addr, a)

\* AddrIsLocal(addr) on the host of the sessions; err: net.InterfaceAddrs()
\* fails
AddrIsLocal(addr, err) == AddrIsLocalOn(addr, InterfaceAddrs, err)

\* What AddrIsLocal is asked in a session is not recorded
NotAsked == [addr |-> ipPeer, addrs |-> InterfaceAddrs]
NoVerdict == [called |-> FALSE, err |-> FALSE, res |-> FALSE]

\* AddrIsLocalUDP(addr)
AddrIsLocalUDP(addr, err) == AddrIsLocal(addr.IP, err)

\* The messages of the datagrams: one answer record, and records in all
\* three sections
msgOne  == [Answer |-> <<rrA>>,  Ns |-> <<>>,    Extra |-> <<>>]
msgFull == [Answer |-> <<rrB>>,  Ns |-> <<rrAU>>, Extra |-> <<rrOPT, rrB>>]
NoMsg   == [Answer |-> <<>>,     Ns |-> <<>>,    Extra |-> <<>>]

\* What a datagram holds: the packed form of a message, or bytes that
\* rsp.Unpack rejects
Payloads ==
    {[ok |-> TRUE, msg |-> msgOne], [ok |-> TRUE, msg |-> msgFull],
     [ok |-> FALSE, msg |-> NoMsg]}

\* The datagrams: n, from and buf[:n] of ReadFromUDP
Dgrams == {[from |-> [IP |-> ip], data |-> d] : ip \in {ipLoopback, ipOwn, ipPeer}, d \in Payloads}

\* Where a receiver is inside ResponseInput, holding rspLock
InInput == {"l138", "l139", "l140", "unlock"}

\* Where the caller of ResponseGet is inside it, holding rspLock
InGet == {"c189", "c192", "c195", "unlock"}

\* A datagram reaches the open socket c
Deliver(c, d) ==
    /\ sock[c] = "open"
    /\ ndgram > 0
    /\ rxq' = [rxq EXCEPT ![c] = Append(@, d)]
    /\ ndgram' = ndgram - 1
    /\ UNCHANGED <<storeVars, rspLock, gpc, sock, recvVars, histVars, logVars, mainVars, printVars, ifVars, callVars>>

\* Mutant of RecvError: the receiver returns on any error of ReadFromUDP
RecvErrorExit(c) ==
    /\ rpc[c] = "read"
    /\ sock[c] = "open"
    /\ rpc' = [rpc EXCEPT ![c] = "done"]
    /\ wait' = wait - 1
    /\ UNCHANGED <<storeVars, rspLock, gpc, netVars, rsp, histVars, logVars,
                   OptTxCount, mpc, mi, tmCount, sent, printVars, ifVars, callVars>>

\* queryRecv: ReadFromUDP fails with an error that is not net.ErrClosed, and
\* the receiver tries again
RecvError(c) ==
    /\ rpc[c] = "read"
    /\ sock[c] = "open"
    /\ UNCHANGED vars

\* Receiver c has read datagram d; local: AddrIsLocalUDP judged its sender
\* local. ok tells whether the bytes of d are a DNS message
Heard(c, d, local) ==
    heard' = [heard EXCEPT ![c] = Append(@, [local |-> local, ok |-> d.data.ok])]

\* Mutant of RecvOwn: a datagram whose sender is local is parsed and handed
\* to ResponseInput like any other
RecvOwnKeep(c) ==
    /\ rpc[c] = "read"
    /\ sock[c] = "open"
    /\ rxq[c] # <<>>
    /\ \E err \in BOOLEAN : AddrIsLocalUDP(Head(rxq[c]).from, err)
    /\ rxq' = [rxq EXCEPT ![c] = Tail(@)]
    /\ Heard(c, Head(rxq[c]), TRUE)
    /\ IF Head(rxq[c]).data.ok
       THEN /\ rsp' = [rsp EXCEPT ![c] = Head(rxq[c]).data.msg]
            /\ rpc' = [rpc EXCEPT ![c] = "lock"]
       ELSE UNCHANGED recvVars
    /\ UNCHANGED <<storeVars, rspLock, gpc, sock, ndgram, histVars, whole, ingested, mainVars, printVars, ifVars, callVars>>

\* queryRecv: a datagram is read whose sender is local; it is skipped
RecvOwn(c) ==
    /\ rpc[c] = "read"
    /\ sock[c] = "open"
    /\ rxq[c] # <<>>
    /\ \E err \in BOOLEAN : AddrIsLocalUDP(Head(rxq[c]).from, err)
    /\ rxq' = [rxq EXCEPT ![c] = Tail(@)]
    /\ Heard(c, Head(rxq[c]), TRUE)
    /\ UNCHANGED <<storeVars, rspLock, gpc, sock, ndgram, recvVars, histVars, whole, ingested, mainVars, printVars, ifVars, callVars>>

\* Mutant of RecvInvalid: the receiver returns when rsp.Unpack fails
RecvInvalidExit(c) ==
    /\ rpc[c] = "read"
    /\ sock[c] = "open"
    /\ rxq[c] # <<>>
    /\ \E err \in BOOLEAN : ~AddrIsLocalUDP(Head(rxq[c]).from, err)
    /\ ~Head(rxq[c]).data.ok
    /\ rxq' = [rxq EXCEPT ![c] = Tail(@)]
    /\ Heard(c, Head(rxq[c]), FALSE)
    /\ rpc' = [rpc EXCEPT ![c] = "done"]
    /\ wait' = wait - 1
    /\ UNCHANGED <<storeVars, rspLock, gpc, sock, ndgram, rsp, histVars, whole, ingested,
                   OptTxCount, mpc, mi, tmCount, sent, printVars, ifVars, callVars>>

\* queryRecv: a datagram of another host is read that rsp.Unpack rejects;
\* it is skipped
RecvInvalid(c) ==
    /\ rpc[c] = "read"
    /\ sock[c] = "open"
    /\ rxq[c] # <<>>
    /\ \E err \in BOOLEAN : ~AddrIsLocalUDP(Head(rxq[c]).from, err)
    /\ ~Head(rxq[c]).data.ok
    /\ rxq' = [rxq EXCEPT ![c] = Tail(@)]
    /\ Heard(c, Head(rxq[c]), FALSE)
    /\ UNCHANGED <<storeVars, rspLock, gpc, sock, ndgram, recvVars, histVars, whole, ingested, mainVars, printVars, ifVars, callVars>>

\* queryRecv: a datagram of another host is read and parsed; the receiver
\* calls ResponseInput(rsp)
RecvResponse(c) ==
    /\ rpc[c] = "read"
    /\ sock[c] = "open"
    /\ rxq[c] # <<>>
    /\ \E err \in BOOLEAN : ~AddrIsLocalUDP(Head(rxq[c]).from, err)
    /\ Head(rxq[c]).data.ok
    /\ rxq' = [rxq EXCEPT ![c] = Tail(@)]
    /\ rsp' = [rsp EXCEPT ![c] = Head(rxq[c]).data.msg]
    /\ rpc' = [rpc EXCEPT ![c] = "lock"]
    /\ Heard(c, Head(rxq[c]), FALSE)
    /\ UNCHANGED <<storeVars, rspLock, gpc, sock, ndgram, histVars, whole, ingested, mainVars, printVars, ifVars, callVars>>

\* ResponseInput: rspLock.Lock()
InputLock(c) ==
    /\ rpc[c] = "lock"
    /\ CanLock(rspLock)
    /\ rspLock' = TRUE
    /\ rpc' = [rpc EXCEPT ![c] = "l138"]
    /\ UNCHANGED <<storeVars, gpc, netVars, rsp, histVars, logVars, mainVars, printVars, ifVars, callVars>>

\* ResponseInput: rspAnswer = responseAppend(rspAnswer, rsp.Answer)
Input138(c) ==
    /\ rpc[c] = "l138"
    /\ Commit(Line138(Agg, rsp[c]), got)
    /\ rpc' = [rpc EXCEPT ![c] = "l139"]
    /\ UNCHANGED <<rspLock, gpc, netVars, rsp, histVars, logVars, mainVars, printVars, ifVars, callVars>>

\* ResponseInput: rspAuthority = responseAppend(rspAnswer, rsp.Ns)
Input139(c) ==
    /\ rpc[c] = "l139"
    /\ Commit(Line139(Agg, rsp[c]), got)
    /\ rpc' = [rpc EXCEPT ![c] = "l140"]
    /\ UNCHANGED <<rspLock, gpc, netVars, rsp, histVars, logVars, mainVars, printVars, ifVars, callVars>>

\* ResponseInput: rspAdditional = responseAppend(rspAdditional, rsp.Extra)
Input140(c) ==
    /\ rpc[c] = "l140"
    /\ Commit(Line140(Agg, rsp[c]), got)
    /\ rpc' = [rpc EXCEPT ![c] = "unlock"]
    /\ UNCHANGED <<rspLock, gpc, netVars, rsp, histVars, logVars, mainVars, printVars, ifVars, callVars>>

\* ResponseInput: the deferred rspLock.Unlock(), and the return to queryRecv
InputUnlock(c) ==
    /\ rpc[c] = "unlock"
    /\ rspLock' = FALSE
    /\ rpc' = [rpc EXCEPT ![c] = "read"]
    /\ rsp' = [rsp EXCEPT ![c] = NoMsg]
    /\ whole' = ShownAll(Agg)
    /\ ingested' = Append(ingested, [conn |-> c, msg |-> rsp[c],
                                      closed |-> sock[c] = "closed"])
    /\ Ingested(rsp[c])
    /\ UNCHANGED <<storeVars, gpc, netVars, heard, mainVars, printVars, ifVars, callVars>>

\* ResponseGet: rspLock.Lock(); the results ans, auth, add are nil
GetLock ==
    /\ gpc = "idle"
    /\ CanLock(rspLock)
    /\ rspLock' = TRUE
    /\ Commit(Agg, NoneGot)
    /\ made' = {}
    /\ gpc' = "c189"
    /\ UNCHANGED <<netVars, recvVars, histVars, logVars, out, ifVars, callVars>>

\* ResponseGet: ans = make(...); copy(ans, rspAnswer)
Get189 ==
    /\ gpc = "c189"
    /\ Commit(Agg, [got EXCEPT !.ans = Copy189(Agg)])
    /\ made' = made \cup {"ans"}
    /\ gpc' = "c192"
    /\ UNCHANGED <<rspLock, netVars, recvVars, histVars, logVars, mainVars, out, ifVars, callVars>>

\* ResponseGet: auth = make(...); copy(auth, rspAuthority)
Get192 ==
    /\ gpc = "c192"
    /\ Commit(Agg, [got EXCEPT !.auth = Copy192(Agg)])
    /\ made' = made \cup {"auth"}
    /\ gpc' = "c195"
    /\ UNCHANGED <<rspLock, netVars, recvVars, histVars, logVars, mainVars, out, ifVars, callVars>>

\* ResponseGet: add = make(...); copy(add, rspAdditional)
Get195 ==
    /\ gpc = "c195"
    /\ Commit(Agg, [got EXCEPT !.add = Copy195(Agg)])
    /\ made' = made \cup {"add"}
    /\ gpc' = "unlock"
    /\ UNCHANGED <<rspLock, netVars, recvVars, histVars, logVars, mainVars, out, ifVars, callVars>>

\* ResponseGet: the deferred rspLock.Unlock(), and the return
GetUnlock ==
    /\ gpc = "unlock"
    /\ rspLock' = FALSE
    /\ gpc' = "idle"
    /\ UNCHANGED <<storeVars, netVars, recvVars, histVars, logVars, made, ifVars, callVars>>

\* Mutant of RecvClosed: net.ErrClosed is retried like any other error
RecvClosedRetry(c) ==
    /\ rpc[c] = "read"
    /\ sock[c] = "closed"
    /\ UNCHANGED vars

\* queryRecv: ReadFromUDP fails with net.ErrClosed; the receiver returns
\* and its deferred wait.Done() runs
RecvClosed(c) ==
    /\ rpc[c] = "read"
    /\ sock[c] = "closed"
    /\ rpc' = [rpc EXCEPT ![c] = "done"]
    /\ wait' = wait - 1
    /\ UNCHANGED <<storeVars, rspLock, gpc, netVars, rsp, histVars, logVars,
                   OptTxCount, mpc, mi, tmCount, sent, printVars, ifVars, callVars>>

\* ------------------------------------------------------------------------
\* ResponsePrint
\* ------------------------------------------------------------------------

\* A Go slice: nil, or made, and the elements it shows. make([]T, n) is not
\* nil, whatever n is
Slice(isMade, items) == [isNil |-> ~isMade, items |-> items]

\* The question section QueryRun returns: rq.Question, of one question
rqQuestion == <<"question">>

\* A section as ResponsePrint writes it: nothing if the slice is nil, else
\* the header, a line for every element and an empty line
PrintSection(header, kind, sl) ==
    IF sl.isNil THEN <<>>
    ELSE <<<<"header", header>>>>
         \o [i \in DOMAIN sl.items |-> <<kind, sl.items[i]>>]
         \o <<<<"empty", "">>>>

\* ResponsePrint(w, question, ans, auth, add): the lines written to w
ResponsePrint(question, ans, auth, add) ==
    PrintSection(";; QUESTION PSEUDOSECTION:", "question", question)
    \o PrintSection(";; ANSWER SECTION:", "rr", ans)
    \o PrintSection(";; AUTHORITY SECTION:", "rr", auth)
    \o PrintSection(";; ADDITIONAL SECTION:", "rr", add)

\* ------------------------------------------------------------------------
\* queryNewRequest
\* ------------------------------------------------------------------------

\* Domain names are strings of characters; names without escape sequences
\* are modelled
dot == "."
dotLocal == <<dot, "l", "o", "c", "a", "l", dot>>
foo == <<"f", "o", "o">>
fooDot == <<"f", "o", "o", dot>>
fooBar == <<"f", "o", "o", dot, "b", "a", "r">>
fooBarDot == <<"f", "o", "o", dot, "b", "a", "r", dot>>

\* dns.IsFqdn(s): s ends with a dot
IsFqdn(s) == s # <<>> /\ s[Len(s)] = dot

\* dns.Fqdn(s)
Fqdn(s) == IF IsFqdn(s) THEN s ELSE Append(s, dot)

\* dns.IsDomainName: the loop over the characters of the fully qualified
\* name. i counts from 1, begin and off from 0 as in the library
RECURSIVE DomainLoop(_, _, _, _, _, _)
DomainLoop(s, i, begin, wasDot, off, labels) ==
    IF i > Len(s) THEN [labels |-> labels, ok |-> TRUE]
    ELSE IF s[i] # dot THEN DomainLoop(s, i + 1, begin, FALSE, off, labels)
    ELSE IF i = 1 /\ Len(s) > 1 THEN [labels |-> labels, ok |-> FALSE]
    ELSE IF wasDot THEN [labels |-> labels, ok |-> FALSE]
    ELSE IF (i - 1) - begin >= 64 THEN [labels |-> labels, ok |-> FALSE]
    ELSE IF off + 1 + ((i - 1) - begin) > 256 THEN [labels |-> labels, ok |-> FALSE]
    ELSE DomainLoop(s, i + 1, i, TRUE, off + 1 + ((i - 1) - begin), labels + 1)

\* dns.IsDomainName(s)
IsDomainName(s) ==
    IF Len(s) = 0 THEN [labels |-> 0, ok |-> FALSE]
    ELSE DomainLoop(Fqdn(s), 1, 0, FALSE, 0, 0)

\* No request: queryNewRequest has not returned
NoRq == [RecursionDesired |-> FALSE, Question |-> <<>>]

\* The request of the given name
Request(fqdn) ==
    [RecursionDesired |-> FALSE,
     Question |-> <<[Name |-> fqdn, Qtype |-> "A", Qclass |-> ClassINET]>>]

\* Mutant of queryNewRequest: .local. is appended to any name
queryNewRequestAlways(domain) ==
    [fatal |-> ~IsDomainName(domain).ok,
     rq |-> IF ~IsDomainName(domain).ok THEN NoRq
            ELSE Request(Fqdn(domain \o dotLocal))]

\* queryNewRequest(), for OptDomain = domain; fatal if LogFatal is called.
\* rq.Id is random and left out
queryNewRequest(domain) ==
    [fatal |-> ~IsDomainName(domain).ok,
     rq |-> IF ~IsDomainName(domain).ok THEN NoRq
            ELSE Request(Fqdn(IF IsDomainName(domain).labels < 2
                              THEN domain \o dotLocal ELSE domain))]

\* ------------------------------------------------------------------------
\* QueryRun and main
\* ------------------------------------------------------------------------

\* The next socket of the loop over all, and the step past its last one
Step(all, next) ==
    IF mi < Len(all) THEN mi' = mi + 1 /\ mpc' = mpc
    ELSE mi' = 1 /\ mpc' = next

\* QueryRun: conf.ListenPacket for the next local address; LogFatal if it
\* fails
ListenUnicast ==
    /\ mpc = "listen"
    /\ \/ /\ sock' = [sock EXCEPT ![conns[mi]] = "open"]
          /\ Step(conns, "mlisten")
       \/ /\ mpc' = "fatal"
          /\ UNCHANGED <<sock, mi, printVars, ifVars, callVars>>
    /\ UNCHANGED <<storeVars, rspLock, gpc, rxq, ndgram, recvVars, histVars, logVars,
                   OptTxCount, tmCount, wait, sent, printVars, ifVars, callVars>>

\* Mutant of ListenMulticast: when ListenMulticastUDP fails the interface is
\* left out and the session goes on
ListenMulticastSkip ==
    /\ mpc = "mlisten"
    /\ \/ sock' = [sock EXCEPT ![mconns[mi]] = "open"]
       \/ sock' = sock
    /\ Step(mconns, "start")
    /\ UNCHANGED <<storeVars, rspLock, gpc, rxq, ndgram, recvVars, histVars, logVars,
                   OptTxCount, tmCount, wait, sent, printVars, ifVars, callVars>>

\* QueryRun: net.ListenMulticastUDP for the next interface; LogFatal if it
\* fails
ListenMulticast ==
    /\ mpc = "mlisten"
    /\ \/ /\ sock' = [sock EXCEPT ![mconns[mi]] = "open"]
          /\ Step(mconns, "start")
       \/ /\ mpc' = "fatal"
          /\ UNCHANGED <<sock, mi, printVars, ifVars, callVars>>
    /\ UNCHANGED <<storeVars, rspLock, gpc, rxq, ndgram, recvVars, histVars, logVars,
                   OptTxCount, tmCount, wait, sent, printVars, ifVars, callVars>>

\* Receivers are started for the unicast sockets only
StartUnicastOnly ==
    /\ mpc = "start"
    /\ wait' = wait + 1
    /\ rpc' = [rpc EXCEPT ![conns[mi]] = "read"]
    /\ Step(conns, "request")
    /\ UNCHANGED <<storeVars, rspLock, gpc, netVars, rsp, histVars, logVars,
                   OptTxCount, tmCount, sent, printVars, ifVars, callVars>>

\* QueryRun: wait.Add(1); go queryRecv(conn, &wait), for the sockets of conns
\* and then those of mconns
StartReceiver ==
    /\ mpc = "start"
    /\ wait' = wait + 1
    /\ rpc' = [rpc EXCEPT ![allConns[mi]] = "read"]
    /\ Step(allConns, "request")
    /\ UNCHANGED <<storeVars, rspLock, gpc, netVars, rsp, histVars, logVars,
                   OptTxCount, tmCount, sent, printVars, ifVars, callVars>>

\* QueryRun: queryNewRequest(), rq.Pack() and tmCount := OptTxCount; LogFatal
\* if Pack fails
NewRequest ==
    /\ mpc = "request"
    /\ rq' = queryNewRequest(OptDomain).rq
    /\ IF queryNewRequest(OptDomain).fatal
       THEN mpc' = "fatal" /\ tmCount' = tmCount
       ELSE \/ mpc' = "loop" /\ tmCount' = OptTxCount
            \/ mpc' = "fatal" /\ tmCount' = tmCount
    /\ UNCHANGED <<storeVars, rspLock, gpc, netVars, recvVars, histVars, logVars,
                   OptTxCount, mi, wait, sent, printVars, ifVars, OptDomain, alIn, alOut>>

\* Mutant of LoopTest: the loop runs while tmCount >= 0
LoopTestInclusive ==
    /\ mpc = "loop"
    /\ mpc' = IF tmCount >= 0 THEN "send" ELSE "close"
    /\ mi' = 1
    /\ UNCHANGED <<storeVars, rspLock, gpc, netVars, recvVars, histVars, logVars,
                   OptTxCount, tmCount, wait, sent, printVars, ifVars, callVars>>

\* QueryRun: for tmCount > 0
LoopTest ==
    /\ mpc = "loop"
    /\ mpc' = IF tmCount > 0 THEN "send" ELSE "close"
    /\ mi' = 1
    /\ UNCHANGED <<storeVars, rspLock, gpc, netVars, recvVars, histVars, logVars,
                   OptTxCount, tmCount, wait, sent, printVars, ifVars, callVars>>

\* Mutant of Send: the query is written to the IPv4 group from any socket
SendAll4 ==
    /\ mpc = "send"
    /\ sent' = [sent EXCEPT ![conns[mi]] = Append(@, mcast4)]
    /\ Step(conns, "sleep")
    /\ UNCHANGED <<storeVars, rspLock, gpc, netVars, recvVars, histVars, logVars,
                   OptTxCount, tmCount, wait, printVars, ifVars, callVars>>

\* QueryRun: conn.WriteToUDP(rqBytes, ...) on the next unicast socket, to
\* the group of the socket's family
Send ==
    /\ mpc = "send"
    /\ sent' = [sent EXCEPT ![conns[mi]] =
                   Append(@, IF AddrIs4(LocalAddr(conns[mi]).IP) THEN mcast4 ELSE mcast6)]
    /\ Step(conns, "sleep")
    /\ UNCHANGED <<storeVars, rspLock, gpc, netVars, recvVars, histVars, logVars,
                   OptTxCount, tmCount, wait, printVars, ifVars, callVars>>

\* QueryRun: tmCount--; time.Sleep(OptTxPeriod)
Sleep ==
    /\ mpc = "sleep"
    /\ tmCount' = tmCount - 1
    /\ mpc' = "loop"
    /\ UNCHANGED <<storeVars, rspLock, gpc, netVars, recvVars, histVars, logVars,
                   OptTxCount, mi, wait, sent, printVars, ifVars, callVars>>

\* QueryRun: conn.Close(), for the sockets of conns and then those of
\* mconns; the datagrams that wait in the socket are gone
Close ==
    /\ mpc = "close"
    /\ sock' = [sock EXCEPT ![allConns[mi]] = "closed"]
    /\ rxq' = [rxq EXCEPT ![allConns[mi]] = <<>>]
    /\ Step(allConns, "wait")
    /\ UNCHANGED <<storeVars, rspLock, gpc, ndgram, recvVars, histVars, logVars,
                   OptTxCount, tmCount, wait, sent, printVars, ifVars, callVars>>

\* Mutant of Wait: QueryRun returns without waiting for the receivers
WaitNot ==
    /\ mpc = "wait"
    /\ mpc' = "returned"
    /\ UNCHANGED <<storeVars, rspLock, gpc, netVars, recvVars, histVars, logVars,
                   OptTxCount, mi, tmCount, wait, sent, printVars, ifVars, callVars>>

\* Mutant of Wait: QueryRun returns when one receiver is still running
WaitEarly ==
    /\ mpc = "wait"
    /\ wait <= 1
    /\ mpc' = "returned"
    /\ UNCHANGED <<storeVars, rspLock, gpc, netVars, recvVars, histVars, logVars,
                   OptTxCount, mi, tmCount, wait, sent, printVars, ifVars, callVars>>

\* QueryRun: wait.Wait() and return rq.Question
Wait ==
    /\ mpc = "wait"
    /\ wait = 0
    /\ mpc' = "returned"
    /\ UNCHANGED <<storeVars, rspLock, gpc, netVars, recvVars, histVars, logVars,
                   OptTxCount, mi, tmCount, wait, sent, printVars, ifVars, callVars>>

\* main: ResponseGetAndPrint calls ResponseGet
MainGet ==
    /\ mpc = "returned"
    /\ GetLock
    /\ mpc' = "print"
    /\ UNCHANGED <<OptTxCount, mi, tmCount, wait, sent>>

\* main: ResponseGet returns, ResponsePrint writes the sections it is given
\* and the question QueryRun returned, and main returns
MainExit ==
    /\ mpc = "print"
    /\ GetUnlock
    /\ out' = ResponsePrint(Slice(TRUE, rqQuestion),
                            Slice("ans" \in made, Shown(heap, got.ans)),
                            Slice("auth" \in made, Shown(heap, got.auth)),
                            Slice("add" \in made, Shown(heap, got.add)))
    /\ mpc' = "exit"
    /\ UNCHANGED <<OptTxCount, mi, tmCount, wait, sent>>

\* ------------------------------------------------------------------------
\* Initial states
\* ------------------------------------------------------------------------

InitAgg ==
    /\ heap = [r \in Refs |-> Null]
    /\ rspAnswer = <<>>
    /\ rspAuthority = <<>>
    /\ rspAdditional = <<>>
    /\ rspLock = FALSE
    /\ got = NoneGot
    /\ gpc = "idle"

InitHist ==
    /\ seenAnswer = {}
    /\ seenNs = {}
    /\ seenExtra = {}
    /\ whole = ShownAll(Empty)
    /\ ingested = <<>>
    /\ heard = [c \in Socks |-> <<>>]

\* No socket is open and no receiver runs
InitNoNet ==
    /\ sock = [c \in Socks |-> "none"]
    /\ rxq = [c \in Socks |-> <<>>]
    /\ ndgram = 0
    /\ rpc = [c \in Socks |-> "off"]
    /\ rsp = [c \in Socks |-> NoMsg]

\* main has not called QueryRun
InitNoMain ==
    /\ OptTxCount = 0
    /\ mpc = "main"
    /\ mi = 1
    /\ tmCount = 0
    /\ wait = 0
    /\ sent = [c \in Socks |-> <<>>]
    /\ made = {}
    /\ out = <<>>
    /\ ifIn = HostInput
    /\ ifOut = NotCalled
    /\ OptDomain = foo
    /\ rq = NoRq
    /\ alIn = NotAsked
    /\ alOut = NoVerdict

\* ------------------------------------------------------------------------
\* The aggregator alone: any sequence of ResponseInput calls
\* ------------------------------------------------------------------------

InitSeq == InitAgg /\ InitHist /\ InitNoNet /\ InitNoMain

NextSeq ==
    \E m \in MsgSet :
        /\ ResponseInputCall(m)
        /\ UNCHANGED <<gpc, netVars, recvVars, histVars, logVars, mainVars, printVars, ifVars, callVars>>

SpecAgg == InitSeq /\ [][NextSeq]_vars

\* The same, with the history of what was ingested
NextHist ==
    \E m \in MsgSet :
        /\ ResponseInputCall(m)
        /\ Ingested(m)
        /\ UNCHANGED <<gpc, netVars, recvVars, logVars, mainVars, printVars, ifVars, callVars>>

SpecHist == InitSeq /\ [][NextHist]_vars

\* ------------------------------------------------------------------------
\* The aggregator and a caller of ResponseGet that writes to what it got
\* ------------------------------------------------------------------------

\* The messages of one record
OneRRMsgs == {m \in MsgSet : Len(m.Answer) + Len(m.Ns) + Len(m.Extra) <= 1}

\* The indices of the records a caller can have got
GotIndices == 1..(3 * Cardinality(RRs))

NextAlias ==
    \/ \E m \in OneRRMsgs :
          /\ ResponseInputCall(m)
          /\ UNCHANGED <<gpc, netVars, recvVars, histVars, logVars, mainVars, printVars, ifVars, callVars>>
    \/ /\ ResponseGetCall
       /\ UNCHANGED <<gpc, netVars, recvVars, histVars, logVars, mainVars, out, ifVars, callVars>>
    \/ \E i \in GotIndices :
          /\ CallerModify(i)
          /\ UNCHANGED <<gpc, netVars, recvVars, histVars, logVars, mainVars, printVars, ifVars, callVars>>

SpecAlias == InitSeq /\ [][NextAlias]_vars

\* ------------------------------------------------------------------------
\* Receivers that call ResponseInput while another task calls ResponseGet
\* ------------------------------------------------------------------------

\* The sockets whose receivers run
ConcSocks == {"conn1", "mconn1"}

\* The sockets of ConcSocks are open and their receivers run
InitConc ==
    /\ InitAgg
    /\ InitHist
    /\ InitNoMain
    /\ sock = [c \in Socks |-> IF c \in ConcSocks THEN "open" ELSE "none"]
    /\ rxq = [c \in Socks |-> <<>>]
    /\ ndgram = MaxDgrams
    /\ rpc = [c \in Socks |-> IF c \in ConcSocks THEN "read" ELSE "off"]
    /\ rsp = [c \in Socks |-> NoMsg]

\* The steps of the receivers and of the network
Receivers ==
    \/ \E c \in Socks, d \in Dgrams : Deliver(c, d)
    \/ \E c \in Socks : RecvError(c)
    \/ \E c \in Socks : RecvOwn(c)
    \/ \E c \in Socks : RecvInvalid(c)
    \/ \E c \in Socks : RecvResponse(c)
    \/ \E c \in Socks : InputLock(c)
    \/ \E c \in Socks : Input138(c)
    \/ \E c \in Socks : Input139(c)
    \/ \E c \in Socks : Input140(c)
    \/ \E c \in Socks : InputUnlock(c)

NextConc ==
    \/ Receivers
    \/ GetLock /\ UNCHANGED <<mainVars, ifVars, callVars>>
    \/ Get189
    \/ Get192
    \/ Get195
    \/ GetUnlock /\ UNCHANGED <<mainVars, out>>

SpecConc == InitConc /\ [][NextConc]_vars

\* ------------------------------------------------------------------------
\* A session: main calls QueryRun and then ResponseGetAndPrint
\* ------------------------------------------------------------------------

Init ==
    /\ InitAgg
    /\ InitHist
    /\ sock = [c \in Socks |-> "none"]
    /\ rxq = [c \in Socks |-> <<>>]
    /\ ndgram = MaxSessionDgrams
    /\ rpc = [c \in Socks |-> "off"]
    /\ rsp = [c \in Socks |-> NoMsg]
    /\ OptTxCount \in 0..MaxTxCount
    /\ mpc = "listen"
    /\ mi = 1
    /\ tmCount = 0
    /\ wait = 0
    /\ sent = [c \in Socks |-> <<>>]
    /\ made = {}
    /\ out = <<>>
    /\ ifIn = HostInput
    /\ ifOut = HostCalled
    /\ OptDomain = foo
    /\ rq = NoRq
    /\ alIn = NotAsked
    /\ alOut = NoVerdict

\* The process runs: os.Exit has not been called and main has not returned
Running == mpc \notin {"fatal", "exit"}

Next ==
    \/ Running /\ Receivers
    \/ Running /\ \E c \in Socks : RecvClosed(c)
    \/ ListenUnicast
    \/ ListenMulticast
    \/ StartReceiver
    \/ NewRequest
    \/ LoopTest
    \/ Send
    \/ Sleep
    \/ Close
    \/ Wait
    \/ MainGet
    \/ Get189
    \/ Get192
    \/ Get195
    \/ MainExit

Spec == Init /\ [][Next]_vars

\* The steps of the goroutine of receiver c that change the state; a
\* receive that fails and is retried changes nothing
ReceiverStep(c) ==
    \/ RecvOwn(c)
    \/ RecvInvalid(c)
    \/ RecvResponse(c)
    \/ InputLock(c)
    \/ Input138(c)
    \/ Input139(c)
    \/ Input140(c)
    \/ InputUnlock(c)
    \/ RecvClosed(c)

\* The steps of the main goroutine
MainStep ==
    \/ ListenUnicast
    \/ ListenMulticast
    \/ StartReceiver
    \/ NewRequest
    \/ LoopTest
    \/ Send
    \/ Sleep
    \/ Close
    \/ Wait
    \/ MainGet
    \/ Get189
    \/ Get192
    \/ Get195
    \/ MainExit

\* A step of some goroutine of the process
GoroutineStep == MainStep \/ (Running /\ \E c \in Socks : ReceiverStep(c))

\* The Go scheduler runs the goroutines that can run: as long as some
\* goroutine can take a step, a step of some goroutine is taken. That is
\* less than the scheduler gives, which is a step of every goroutine that
\* can run. Nothing is assumed of the network: no datagram has to arrive.
Fairness == WF_vars(GoroutineStep)

SpecLive == Init /\ [][Next]_vars /\ Fairness

\* ------------------------------------------------------------------------
\* IfAddrs on the interfaces of any host
\* ------------------------------------------------------------------------

\* The addresses an interface can have
IfIPs == {ipLoopback, ipOwn, ipLoopback6, ipOwn6, ipGlobal6, ipMapped}

\* The interfaces net.Interfaces() returns: eth0 with up to MaxIfAddrs
\* addresses and eth1 with one address or none
InterfaceLists ==
    {<<[Index |-> 2, Name |-> "eth0", Addrs |-> a0],
       [Index |-> 3, Name |-> "eth1", Addrs |-> a1]>> :
        a0 \in SeqsUpTo(IfIPs, MaxIfAddrs), a1 \in SeqsUpTo(IfIPs, 1)}

\* The options after optParse: OptIface is not set, or names an interface
\* or nothing, and one at least of Opt4 and Opt6 is set
IfInputs ==
    {[interfaces |-> l, optIface |-> n, opt4 |-> o[1], opt6 |-> o[2]] :
        l \in InterfaceLists, n \in {"", "eth1", "wlan0"},
        o \in {<<TRUE, FALSE>>, <<FALSE, TRUE>>, <<TRUE, TRUE>>}}

InitIf ==
    /\ InitAgg
    /\ InitHist
    /\ InitNoNet
    /\ OptTxCount = 0
    /\ mpc = "main"
    /\ mi = 1
    /\ tmCount = 0
    /\ wait = 0
    /\ sent = [c \in Socks |-> <<>>]
    /\ made = {}
    /\ out = <<>>
    /\ ifIn \in IfInputs
    /\ ifOut = NotCalled
    /\ OptDomain = foo
    /\ rq = NoRq
    /\ alIn = NotAsked
    /\ alOut = NoVerdict

\* The result of IfAddrs when LogFatal is called
FatalResult == [fatal |-> TRUE, addrs |-> <<>>, if4 |-> <<>>, if6 |-> <<>>]

\* IfAddrs(): net.Interfaces() fails, or iface.Addrs() fails for one of
\* the interfaces, or for none
IfAddrsCall ==
    /\ ~ifOut.called
    /\ \/ ifOut' = [called |-> TRUE, res |-> FatalResult]
       \/ \E failAt \in 0..Len(ifIn.interfaces) :
             ifOut' = [called |-> TRUE,
                       res |-> IfAddrs(ifIn.interfaces, failAt, ifIn.optIface,
                                       ifIn.opt4, ifIn.opt6)]
    /\ UNCHANGED <<storeVars, rspLock, gpc, netVars, recvVars, histVars, logVars, mainVars,
                   printVars, ifIn, callVars>>

NextIf == IfAddrsCall

SpecIf == InitIf /\ [][NextIf]_vars

\* ------------------------------------------------------------------------
\* queryNewRequest on any domain of the command line
\* ------------------------------------------------------------------------

MaxDomainLen == 4

\* The characters of the domains
Chars == {"a", "b", dot}

\* The domains optParse accepts: any strings, among them those of the
\* examples
Domains == SeqsUpTo(Chars, MaxDomainLen) \cup {foo, fooDot, fooBar, fooBarDot}

InitRq ==
    /\ InitAgg
    /\ InitHist
    /\ InitNoNet
    /\ OptTxCount = 0
    /\ mpc = "main"
    /\ mi = 1
    /\ tmCount = 0
    /\ wait = 0
    /\ sent = [c \in Socks |-> <<>>]
    /\ made = {}
    /\ out = <<>>
    /\ ifIn = HostInput
    /\ ifOut = NotCalled
    /\ OptDomain \in Domains
    /\ rq = NoRq
    /\ alIn = NotAsked
    /\ alOut = NoVerdict

\* rq := queryNewRequest(); LogFatal ends the process
NewRequestCall ==
    /\ mpc = "main"
    /\ rq = NoRq
    /\ rq' = queryNewRequest(OptDomain).rq
    /\ mpc' = IF queryNewRequest(OptDomain).fatal THEN "fatal" ELSE "request"
    /\ UNCHANGED <<storeVars, rspLock, gpc, netVars, recvVars, histVars, logVars,
                   OptTxCount, mi, tmCount, wait, sent, printVars, ifVars,
                   OptDomain, alIn, alOut>>

NextRq == NewRequestCall

SpecRq == InitRq /\ [][NextRq]_vars

\* ------------------------------------------------------------------------
\* AddrIsLocal on any address and any host
\* ------------------------------------------------------------------------

MaxLocalAddrs == 2

\* The addresses asked about, and those of the interfaces
LocalIPs == {ipLoopback, ipLoopback6, ipOwn, ipMapped, ipOwn6, ipGlobal6, ipPeer}

\* What AddrIsLocal can be asked: an address, on a host whose interfaces
\* have up to MaxLocalAddrs addresses
Asks ==
    {[addr |-> a, addrs |-> l] :
        a \in LocalIPs, l \in {x \in SUBSET LocalIPs : Cardinality(x) <= MaxLocalAddrs}}

InitLocal ==
    /\ InitAgg
    /\ InitHist
    /\ InitNoNet
    /\ OptTxCount = 0
    /\ mpc = "main"
    /\ mi = 1
    /\ tmCount = 0
    /\ wait = 0
    /\ sent = [c \in Socks |-> <<>>]
    /\ made = {}
    /\ out = <<>>
    /\ ifIn = HostInput
    /\ ifOut = NotCalled
    /\ OptDomain = foo
    /\ rq = NoRq
    /\ alIn \in Asks
    /\ alOut = NoVerdict

\* AddrIsLocal(addr): net.InterfaceAddrs() fails, or returns the addresses
\* of the interfaces
AddrIsLocalCall ==
    /\ ~alOut.called
    /\ \E err \in BOOLEAN :
          alOut' = [called |-> TRUE, err |-> err,
                    res |-> AddrIsLocalOn(alIn.addr, alIn.addrs, err)]
    /\ UNCHANGED <<storeVars, rspLock, gpc, netVars, recvVars, histVars, logVars, mainVars,
                   printVars, ifVars, OptDomain, rq, alIn>>

NextLocal == AddrIsLocalCall

SpecLocal == InitLocal /\ [][NextLocal]_vars

\* ------------------------------------------------------------------------
\* Properties of the aggregator
\* ------------------------------------------------------------------------

Sections == <<rspAnswer, rspAuthority, rspAdditional>>

\* The records stored in any of the three sections
Stored == UNION {{heap[Sections[k][i]] : i \in DOMAIN Sections[k]} : k \in 1..3}

NoTwoEqual(section) ==
    \A i, j \in DOMAIN section : i # j => heap[section[i]] # heap[section[j]]

\* A message that carries some record that is stored, in its answer section
HasAnswer(m) == KeysOf(m.Answer) # {}

\* C1: after any sequence of ResponseInput calls, none of the three stored
\* sections holds two structurally equal records.
C1_NoDuplicates == \A k \in 1..3 : NoTwoEqual(Sections[k])

\* C1 witness: the storage after a message whose answer section carries the
\* same record twice has been ingested.
C1_Witness ==
    \E m \in MsgSet :
        /\ Len(m.Answer) = 2
        /\ HasAnswer(m)
        /\ m.Answer[1] = m.Answer[2]
        /\ Len(rspAnswer) = 1
        /\ ShownAll(Agg) = ShownAll(ResponseInputBody(Empty, m))

\* C2 (as claimed): the stored authority section holds only records that
\* some ingested message carried in its Ns section, and the stored
\* additional section only records some ingested message carried in its
\* Extra section.
C2_SectionsIndependent ==
    /\ KeysIn(heap, rspAuthority) \subseteq seenNs
    /\ KeysIn(heap, rspAdditional) \subseteq seenExtra

\* The records of a section, as a set
RecordSet(h, section) == {h[section[i]] : i \in DOMAIN section}

RecordSets(s) ==
    <<RecordSet(s.heap, s.ans), RecordSet(s.heap, s.auth), RecordSet(s.heap, s.add)>>

\* C3 (as claimed): for any two messages m1 and m2, ingesting m1 then m2
\* yields in each section the same set of records as ingesting m2 then m1.
C3_Commutative ==
    \A m1, m2 \in MsgSet :
        RecordSets(ResponseInputBody(ResponseInputBody(Agg, m1), m2))
            = RecordSets(ResponseInputBody(ResponseInputBody(Agg, m2), m1))

\* C4: in every reachable state and for every message m, ResponseInput(m)
\* called twice in a row leaves the three sections with the same records in
\* the same order as ResponseInput(m) called once.
C4_Idempotent ==
    \A m \in MsgSet :
        \A once \in {ResponseInputBody(Agg, m)} :
            ShownAll(ResponseInputBody(once, m)) = ShownAll(once)

\* C4 witness: the storage after a message with a record to store has been
\* ingested twice in a row.
C4_Witness ==
    \E m \in MsgSet :
        /\ HasAnswer(m)
        /\ rspAnswer # <<>>
        /\ ShownAll(Agg) = ShownAll(ResponseInputBody(ResponseInputBody(Empty, m), m))

\* C5: every record held in a stored section has the unicast-response bit
\* (1 << 15 of the class) cleared.
C5_UnicastBitCleared == \A rr \in Stored : (rr.class \div UnicastBit) % 2 = 0

\* C5 witness: a record is stored that was received with the bit set (only
\* rrAU carries TTL 1).
C5_Witness ==
    \E rr \in Stored : rr.ttl = rrAU.ttl /\ rr.rdata = rrAU.rdata /\ rr.class = ClassINET

\* C6: no OPT pseudo-record is present in any of the three stored sections.
C6_NoOPT == \A rr \in Stored : rr.rrtype # "OPT"

\* C6 witness: the storage after a message that carries an OPT record and a
\* record to store has been ingested.
C6_Witness ==
    \E m \in MsgSet :
        /\ m.Answer = <<rrOPT, rrB>>
        /\ rspAnswer # <<>>
        /\ ShownAll(Agg) = ShownAll(ResponseInputBody(Empty, m))

\* What the caller's snapshot shows
ShownGot == ShownAll([heap |-> heap, ans |-> got.ans, auth |-> got.auth, add |-> got.add])

\* C7 (as claimed): ResponseGet returns independent copies: a write of the
\* caller through the returned values leaves the aggregator's storage as it
\* was, and a later ResponseInput leaves what a returned snapshot shows as
\* it was.
C7_IndependentCopies ==
    [][/\ (\E i \in GotIndices : CallerModify(i))
            => ShownAll(Agg)' = ShownAll(Agg)
       /\ (\E m \in OneRRMsgs : ResponseInputCall(m))
            => ShownGot' = ShownGot]_vars

\* ------------------------------------------------------------------------
\* Properties of the aggregator under concurrent calls
\* ------------------------------------------------------------------------

\* The tasks inside ResponseInput or ResponseGet, between Lock and Unlock
NumInside ==
    Cardinality({c \in Socks : rpc[c] \in InInput}) + (IF gpc \in InGet THEN 1 ELSE 0)

\* C8: at most one task is inside ResponseInput or ResponseGet at any time,
\* and the snapshot ResponseGet has copied shows the sections as they were
\* when a call of ResponseInput last returned: a whole number of ingested
\* messages, never a message that has updated some sections only.
C8_OneLock ==
    /\ NumInside <= 1
    /\ rspLock = (NumInside = 1)
    /\ gpc = "unlock" => ShownGot = whole

\* C8 witness: ResponseGet has copied sections that hold records, while a
\* receiver waits in Lock with its message.
C8_Witness ==
    /\ gpc = "unlock"
    /\ got.ans # <<>>
    /\ got.auth # <<>>
    /\ \E c \in Socks : rpc[c] = "lock"

\* No receiver is inside ResponseInput or about to call it
NoInput == \A c \in Socks : rpc[c] \notin InInput \cup {"lock"}

\* Two receivers on distinct sockets have each ingested the same message of
\* one answer record, and nothing else was ingested
TwoSame ==
    /\ Len(ingested) = 2
    /\ ingested[1].conn # ingested[2].conn
    /\ ingested[1].msg = ingested[2].msg
    /\ Len(ingested[1].msg.Answer) = 1
    /\ ingested[1].msg.Answer[1].rrtype # "OPT"
    /\ NoInput

\* C9: when two receivers on distinct sockets have ingested identical
\* datagrams that carry one answer record, the answer section holds exactly
\* one record, however the steps of the two receivers interleave.
C9_OneAnswer == TwoSame => Len(rspAnswer) = 1

\* C9 witness: both receivers have ingested msgOne.
C9_Witness == TwoSame /\ ingested[1].msg = msgOne /\ Len(rspAnswer) = 1

\* ------------------------------------------------------------------------
\* The order of QueryRun
\* ------------------------------------------------------------------------

\* A query has been written on some socket
AnyWritten == \E c \in Socks : sent[c] # <<>>

\* The sockets that have been opened
Opened == {c \in Socks : sock[c] # "none"}

\* C10: once a query datagram has been written on any socket, every socket
\* that was opened, unicast or multicast, has had its receiver started.
C10_ReceiversBeforeSend ==
    AnyWritten => \A c \in Opened : rpc[c] # "off"

\* C10 witness: the first query has just been written, on the first unicast
\* socket; all the sockets are open and all their receivers are started.
C10_Witness ==
    /\ mpc = "send"
    /\ Len(sent[conns[1]]) = 1
    /\ sent[conns[2]] = <<>>
    /\ Opened = Socks
    /\ \A c \in Socks : sock[c] = "open" /\ rpc[c] # "off"

\* ------------------------------------------------------------------------
\* The send rounds of QueryRun
\* ------------------------------------------------------------------------

\* The send loop of QueryRun is over
SendingOver == mpc \in {"close", "wait", "returned", "print", "exit"}

\* C11: no unicast socket is ever written more than OptTxCount times, once
\* the send loop is over every unicast socket has been written exactly
\* OptTxCount times (not at all when OptTxCount is 0), and a multicast
\* socket is never written.
C11_ExactRounds ==
    /\ \A k \in DOMAIN conns : Len(sent[conns[k]]) <= OptTxCount
    /\ SendingOver => \A k \in DOMAIN conns : Len(sent[conns[k]]) = OptTxCount
    /\ \A k \in DOMAIN mconns : sent[mconns[k]] = <<>>

\* C11 witness: a session of MaxTxCount rounds has ended, and every unicast
\* socket was written MaxTxCount times.
C11_Witness ==
    /\ mpc = "exit"
    /\ OptTxCount = MaxTxCount
    /\ \A k \in DOMAIN conns : Len(sent[conns[k]]) = MaxTxCount

\* ------------------------------------------------------------------------
\* The teardown of QueryRun
\* ------------------------------------------------------------------------

\* QueryRun is in wait.Wait() or past it
Waiting == mpc \in {"wait", "returned", "print", "exit"}

\* QueryRun has returned
Returned == mpc \in {"returned", "print", "exit"}

\* C12: a socket is closed only once the last send round is over, QueryRun
\* waits for the receivers only once every socket, unicast and multicast,
\* is closed, and it returns only once every receiver it started has
\* terminated.
C12_TeardownOrder ==
    /\ (\E c \in Socks : sock[c] = "closed") => SendingOver /\ tmCount = 0
    /\ Waiting => \A c \in Socks : sock[c] = "closed"
    /\ Returned => wait = 0 /\ \A c \in Socks : rpc[c] = "done"

\* C12 witness: QueryRun has returned after a session with send rounds in
\* which a receiver ingested a message; all sockets are closed and all
\* receivers have terminated.
C12_Witness ==
    /\ mpc = "returned"
    /\ OptTxCount > 0
    /\ ingested # <<>>
    /\ \A c \in Socks : sock[c] = "closed" /\ rpc[c] = "done"

\* ------------------------------------------------------------------------
\* Termination of a session
\* ------------------------------------------------------------------------

\* C13: under fair scheduling, whatever datagrams arrive and whatever
\* receives fail, there comes a time from which every receiver whose
\* socket is closed has terminated, and a time from which the session is
\* over: QueryRun has returned, unless the program was terminated by
\* LogFatal while it set up.
C13_SessionFinishes ==
    /\ <>[](\A c \in Socks : sock[c] = "closed" => rpc[c] = "done")
    /\ <>[](Returned \/ mpc = "fatal")

\* C13 witness: a session of MaxTxCount rounds, in which all the datagrams
\* the network had were delivered, is over.
C13_Witness ==
    /\ mpc = "exit"
    /\ OptTxCount = MaxTxCount
    /\ ndgram = 0
    /\ \A c \in Socks : rpc[c] = "done"

\* ------------------------------------------------------------------------
\* The receivers
\* ------------------------------------------------------------------------

\* Receiver c terminates in this step
Exits(c) == rpc[c] # "done" /\ rpc'[c] = "done"

\* C14: a receiver terminates only in a receive on its closed socket, so
\* never while its socket is open, and when it does it ingests nothing;
\* a receive that fails for another reason is tried again with nothing
\* ingested and nothing else changed.
C14_ExitOnlyOnClosed ==
    [][\A c \in Socks :
          /\ Exits(c) => /\ rpc[c] = "read"
                         /\ sock[c] = "closed"
                         /\ ingested' = ingested
                         /\ ShownAll(Agg)' = ShownAll(Agg)
          /\ RecvError(c) => rpc'[c] = "read" /\ ingested' = ingested
          /\ sock'[c] = "open" => rpc'[c] # "done"]_vars

\* C14 witness: the receiver of the first unicast socket has terminated,
\* its socket being closed, while the receiver of the multicast socket,
\* still open, is in its receive with a datagram to read.
C14_Witness ==
    /\ rpc[conns[1]] = "done"
    /\ sock[conns[1]] = "closed"
    /\ sock[mconns[1]] = "open"
    /\ rpc[mconns[1]] = "read"
    /\ rxq[mconns[1]] # <<>>

\* The datagrams read whose sender was judged not local and whose bytes are
\* a DNS message, as socket and position
HeardValid ==
    {p \in Socks \X (1..MaxDgrams + 1) :
        /\ p[2] \in DOMAIN heard[p[1]]
        /\ ~heard[p[1]][p[2]].local
        /\ heard[p[1]][p[2]].ok}

\* Every datagram read so far had a sender judged local
LocalOnly == \A c \in Socks : \A i \in DOMAIN heard[c] : heard[c][i].local

\* The receivers that hold a message for ResponseInput or are inside it
Holding == {c \in Socks : rpc[c] \in InInput \cup {"lock"}}

\* C15: the messages handed to ResponseInput are those of the datagrams
\* whose sender AddrIsLocalUDP judged not local, and no others; as long as
\* every datagram read had a sender judged local, nothing is ingested and
\* the three sections are empty, to the end of the session.
C15_LocalNeverIngested ==
    /\ Cardinality(HeardValid) = Len(ingested) + Cardinality(Holding)
    /\ LocalOnly => /\ Holding = {}
                    /\ ingested = <<>>
                    /\ ShownAll(Agg) = ShownAll(Empty)

\* C15 witness: the session is over; a receiver has read a datagram that
\* holds a DNS message and whose sender was judged local, no other datagram
\* was read, and the sections are empty.
C15_Witness ==
    /\ mpc = "exit"
    /\ LocalOnly
    /\ \E c \in Socks : heard[c] # <<>> /\ heard[c][1].ok
    /\ ShownGot = ShownAll(Empty)

\* The datagrams receiver c has read that were parsed: their sender was
\* judged not local and their bytes are a DNS message
ParsedOn(c) == {i \in DOMAIN heard[c] : ~heard[c][i].local /\ heard[c][i].ok}

\* The messages ingested by receiver c
IngestedOn(c) == {i \in DOMAIN ingested : ingested[i].conn = c}

\* C16: a step in which a receiver reads a datagram that does not parse
\* changes no section and ingests nothing, leaves the receiver in its
\* receive loop and the sockets and the main task as they were; and, after
\* every step, every datagram a receiver has read and parsed, whatever it
\* read before, has been ingested or is being ingested.
C16_InvalidSkipped ==
    [][\A c \in Socks :
          /\ RecvInvalid(c) => /\ ShownAll(Agg)' = ShownAll(Agg)
                               /\ ingested' = ingested
                               /\ rpc'[c] = "read"
                               /\ sock' = sock
                               /\ mpc' = mpc
          /\ Cardinality(ParsedOn(c))' =
                 Cardinality(IngestedOn(c))' + (IF c \in Holding' THEN 1 ELSE 0)]_vars

\* C16 witness: a receiver has read a datagram that did not parse and
\* then one that did, and the message of the latter is ingested.
C16_Witness ==
    \E c \in Socks :
        /\ Len(heard[c]) = 2
        /\ ~heard[c][1].local /\ ~heard[c][1].ok
        /\ ~heard[c][2].local /\ heard[c][2].ok
        /\ Len(ingested) = 1
        /\ ingested[1].conn = c
        /\ rspAnswer # <<>>

\* ------------------------------------------------------------------------
\* The report
\* ------------------------------------------------------------------------

\* The headers among the lines written
Headers == {out[i][2] : i \in {j \in DOMAIN out : out[j][1] = "header"}}

\* C17 (as claimed): the header of a section that has no records is not
\* written, whether the section is nil or of length zero; after a session
\* that collected no records none of the headers ANSWER, AUTHORITY and
\* ADDITIONAL is written.
C17_NoHeaderIfEmpty ==
    mpc = "exit" =>
        /\ got.ans = <<>> => ";; ANSWER SECTION:" \notin Headers
        /\ got.auth = <<>> => ";; AUTHORITY SECTION:" \notin Headers
        /\ got.add = <<>> => ";; ADDITIONAL SECTION:" \notin Headers


\* ------------------------------------------------------------------------
\* C18: IfAddrs never returns a loopback address, never an IPv6 address
\* that is not link-local unicast, never an IPv4 address when Opt4 is
\* false and never an IPv6 address when Opt6 is false, whatever the
\* interfaces and their addresses are
\* ------------------------------------------------------------------------

\* The addresses IfAddrs has returned
Returns == {ifOut.res.addrs[k] : k \in DOMAIN ifOut.res.addrs}

\* All the addresses of the interfaces IfAddrs was given
Given ==
    UNION {Range(ifIn.interfaces[n].Addrs) : n \in DOMAIN ifIn.interfaces}

C18_Filtered ==
    \A a \in Returns :
        /\ ~IsLoopback(a.IP)
        /\ ~AddrIs4(a.IP) => IsLinkLocalUnicast(a.IP)
        /\ AddrIs4(a.IP) => ifIn.opt4
        /\ ~AddrIs4(a.IP) => ifIn.opt6

\* IfAddrs has returned an IPv6 address, and has left out a loopback
\* address, a global IPv6 address and, with Opt4 false, an IPv4 address
C18_Witness ==
    /\ ifOut.called
    /\ ~ifIn.opt4
    /\ {ipLoopback6, ipGlobal6, ipOwn} \subseteq Given
    /\ \E a \in Returns : a.IP = ipOwn6

\* ------------------------------------------------------------------------
\* C19: in the result of IfAddrs an interface is at most once in the
\* list of its family, and it is there if and only if one at least of the
\* returned addresses of that family has it as its zone
\* ------------------------------------------------------------------------

\* The list has no interface twice
Once(ifs) == \A i, j \in DOMAIN ifs : ifs[i].Index = ifs[j].Index => i = j

\* The names of the interfaces of the list
Names(ifs) == {ifs[k].Name : k \in DOMAIN ifs}

\* The zones of the returned addresses of one family
Zones(is4) == {a.Zone : a \in {r \in Returns : AddrIs4(r.IP) = is4}}

C19_InterfaceLists ==
    /\ Once(ifOut.res.if4)
    /\ Once(ifOut.res.if6)
    /\ Range(ifOut.res.if4) \subseteq Range(ifIn.interfaces)
    /\ Range(ifOut.res.if6) \subseteq Range(ifIn.interfaces)
    /\ Names(ifOut.res.if4) = Zones(TRUE)
    /\ Names(ifOut.res.if6) = Zones(FALSE)

\* Two IPv4 addresses of eth0 are returned, and none of eth1, which has
\* an address
C19_Witness ==
    /\ ifOut.called
    /\ \E i, j \in DOMAIN ifOut.res.addrs :
          /\ i # j
          /\ ifOut.res.addrs[i].Zone = "eth0" /\ AddrIs4(ifOut.res.addrs[i].IP)
          /\ ifOut.res.addrs[j].Zone = "eth0" /\ AddrIs4(ifOut.res.addrs[j].IP)
    /\ ifIn.optIface = ""
    /\ ifIn.interfaces[2].Addrs # <<>>
    /\ "eth1" \notin Names(ifOut.res.if4) \cup Names(ifOut.res.if6)

\* ------------------------------------------------------------------------
\* C20: a unicast socket bound to an IPv4 address only ever sends to
\* 224.0.0.251:5353, and one bound to an IPv6 address only ever sends to
\* ff02::fb:5353
\* ------------------------------------------------------------------------

\* The socket is bound to an IPv4 address
Bound4(c) == Len(LocalAddr(c).IP) = 4

C20_OwnFamilyGroup ==
    \A k \in DOMAIN conns :
        \A n \in DOMAIN sent[conns[k]] :
            sent[conns[k]][n] = IF Bound4(conns[k]) THEN mcast4 ELSE mcast6

\* The query has been written from an IPv4 socket and from an IPv6 socket
C20_Witness ==
    \E k4, k6 \in DOMAIN conns :
        /\ Bound4(conns[k4]) /\ sent[conns[k4]] # <<>>
        /\ ~Bound4(conns[k6]) /\ sent[conns[k6]] # <<>>


\* ------------------------------------------------------------------------
\* C21: queryNewRequest builds exactly one question; its name is the
\* domain with ".local." appended when the domain has fewer than two
\* labels, and the domain made fully qualified otherwise: "foo" becomes
\* "foo.local." and "foo.bar." stays; the recursion-desired bit is clear
\* ------------------------------------------------------------------------

\* The number of labels of a domain: the dots of its fully qualified form
Labels(s) == Cardinality({i \in DOMAIN Fqdn(s) : Fqdn(s)[i] = dot})

\* queryNewRequest has returned a request
Built == rq # NoRq

C21_OneQuestion ==
    Built =>
        /\ Len(rq.Question) = 1
        /\ ~rq.RecursionDesired
        /\ rq.Question[1].Name =
               IF Labels(OptDomain) < 2 THEN OptDomain \o dotLocal
               ELSE IF OptDomain[Len(OptDomain)] = dot THEN OptDomain
               ELSE OptDomain \o <<dot>>
        /\ OptDomain = foo =>
               rq.Question[1].Name = <<"f", "o", "o", dot, "l", "o", "c", "a", "l", dot>>
        /\ OptDomain = fooBarDot => rq.Question[1].Name = fooBarDot

\* The request for "foo" is built
C21_Witness == Built /\ OptDomain = foo

\* ------------------------------------------------------------------------
\* C26: the name of the question is a well-formed fully qualified name:
\* it ends in one dot and no two dots follow each other; "foo." gives
\* "foo.local."
\* ------------------------------------------------------------------------

\* The name ends in a dot and has no empty label
WellFormed(name) ==
    /\ name # <<>>
    /\ name[Len(name)] = dot
    /\ \A i \in 1..(Len(name) - 1) : ~(name[i] = dot /\ name[i + 1] = dot)

C26_WellFormedName ==
    Built =>
        /\ WellFormed(rq.Question[1].Name)
        /\ OptDomain = fooDot =>
               rq.Question[1].Name = <<"f", "o", "o", dot, "l", "o", "c", "a", "l", dot>>


\* ------------------------------------------------------------------------
\* C22: if opening a unicast or multicast socket fails, the session ends
\* in LogFatal (os.Exit(1)) at that point: no receiver has been started, no
\* query has been sent, and nothing happens after it
\* ------------------------------------------------------------------------

\* The main goroutine is opening the sockets
Opening == mpc \in {"listen", "mlisten"}

\* A step of the main goroutine in which the socket it was to open is not
\* opened
OpenFails == Opening /\ sock' = sock /\ (mpc' # mpc \/ mi' # mi)

C22_OpenFailureFatal ==
    [][/\ OpenFails =>
            /\ mpc' = "fatal"
            /\ \A c \in Socks : rpc'[c] = "off" /\ sent'[c] = <<>>
       /\ mpc # "fatal"]_vars

\* ListenMulticastUDP has failed for the second interface, after three
\* sockets were opened
C22_Witness ==
    /\ mpc = "fatal"
    /\ sock[mconns[2]] = "none"
    /\ \A c \in Socks \ {mconns[2]} : sock[c] = "open"
    /\ \A c \in Socks : rpc[c] = "off" /\ sent[c] = <<>>

\* ------------------------------------------------------------------------
\* C24 (as claimed): accumulation is monotonic: a record stored in a
\* section stays there through every later ResponseInput, so each section
\* holds every record that is no OPT record and that an ingested message
\* had in that section
\* ------------------------------------------------------------------------

\* The keys of the three sections, and of what was ingested in each
SectionKeys(h, s) == <<KeysIn(h, s[1]), KeysIn(h, s[2]), KeysIn(h, s[3])>>
SeenKeys == <<seenAnswer, seenNs, seenExtra>>

C24_Monotonic ==
    /\ [][\A k \in 1..3 :
            SectionKeys(heap, Sections)[k] \subseteq SectionKeys(heap, Sections)'[k]]_vars
    /\ [](\A k \in 1..3 : SeenKeys[k] \subseteq SectionKeys(heap, Sections)[k])

\* ------------------------------------------------------------------------
\* C25: after QueryRun has returned no receiver runs and the sections no
\* longer change, so what ResponseGetAndPrint gets is what the sections
\* were when QueryRun returned, also when a receiver was inside
\* ResponseInput as its socket was closed
\* ------------------------------------------------------------------------

C25_FrozenAfterReturn ==
    /\ [](Returned => \A c \in Socks : rpc[c] = "done")
    /\ [][Returned => ShownAll(Agg)' = ShownAll(Agg) /\ ingested' = ingested]_vars
    /\ [](mpc = "exit" => ShownGot = ShownAll(Agg))

\* main has printed the answer of a message whose ResponseInput returned
\* after the socket of its receiver was closed
C25_Witness ==
    /\ mpc = "exit"
    /\ \E i \in DOMAIN ingested : ingested[i].closed /\ ingested[i].msg = msgOne
    /\ Len(got.ans) = 1
    /\ Len(rspAnswer) = 1


\* ------------------------------------------------------------------------
\* C23: AddrIsLocal returns true for every loopback address; for another
\* address it returns true exactly when the address equals an address of
\* an interface, and false when the addresses of the interfaces cannot be
\* obtained
\* ------------------------------------------------------------------------

\* The address asked about is an address of an interface
OfInterface == \E a \in alIn.addrs : Equal(alIn.addr, a)

C23_LocalVerdict ==
    alOut.called =>
        /\ IsLoopback(alIn.addr) => alOut.res
        /\ ~IsLoopback(alIn.addr) /\ ~alOut.err => (alOut.res <=> OfInterface)
        /\ ~IsLoopback(alIn.addr) /\ alOut.err => ~alOut.res

\* An address of an interface is not judged local because
\* net.InterfaceAddrs() has failed
C23_Witness ==
    /\ alOut.called
    /\ alOut.err
    /\ alIn.addr = ipOwn
    /\ ipOwn \in alIn.addrs
    /\ ~alOut.res

====
